---- MODULE Spec2Model ----
(***************************************************************************)
(* Model of the IS-IS configuration handler src/conf_mode/protocols_isis.py *)
(* (get_config, verify, generate, apply and the __main__ block) and of the  *)
(* collaborators it calls (configuration backend, FRR configuration object, *)
(* host interface state, template).                                         *)
(*                                                                          *)
(* A ConfigDict is a function from the keys that are present to their       *)
(* values; 'k in d' of the Python code is  k \in DOMAIN d.                  *)
(***************************************************************************)
EXTENDS Integers, Sequences, FiniteSets, TLC

VARIABLES
    pc,        \* position of the handler process (idle between two commits)
    argv_vrf,  \* argv[1] of the invocation, or None
    running,   \* backend: the subtree of each routing context as last committed
    proposed,  \* backend: the subtree of the invoked context in this commit
    host,      \* host interface state: interface -> its master (or None)
    isis,      \* the ConfigDict handed from stage to stage
    exc,       \* the exception in flight, or NoExc
    printed,   \* what the process printed about an error
    status,    \* exit status of the process, or None while it runs
    daemon,    \* the daemon's configuration: a sequence of sections
    frr_cfg,   \* the FRRConfig snapshot held by apply
    loads,     \* load_configuration calls of this invocation
    commits,   \* commit_configuration calls of this invocation that returned
    queries,   \* get_interface_config calls of this invocation
    ran        \* the stages of this invocation, in the order they were entered

vars == <<pc, argv_vrf, running, proposed, host, isis, exc, printed, status,
          daemon, frr_cfg, loads, commits, queries, ran>>

-----------------------------------------------------------------------------
(* Values *)

None == "None"

Empty == <<>>

Has(d, k) == k \in DOMAIN d

\* dict.get(k, default)
Get(d, k, default) == IF Has(d, k) THEN d[k] ELSE default

\* the dicts that hold key k with a value of S, or do not hold it
Opt(k, S) == {Empty} \cup {k :> v : v \in S}

frr_daemon == "isisd"

\* largest number of digits of an enumerated label value
MaxLabelDigits == 2

Interfaces == {"eth0", "eth1"}

\* the order in which the configuration tree lists its interface nodes
InterfaceOrder == <<"eth0", "eth1">>

VrfNames == {"red"}

Tags == {"A", "B"}

Nets == {"49.0001.0000.0000.0001.00"}

-----------------------------------------------------------------------------
(* verify *)

NoExc == [kind |-> "none", text |-> "", arg |-> <<>>, rule |-> "none"]

Raise(kind, text, arg, rule) ==
    [kind |-> kind, text |-> text, arg |-> arg, rule |-> rule]

\* What a call of verify did: the exception it raised (NoExc when it
\* returned None) and the number of host interface queries it made.
Outcome(e, q) == [exc |-> e, queries |-> q]

\* int(s) of a string of decimal digits, given as the sequence of its digits
RECURSIVE int(_)
int(s) ==
    IF Len(s) = 0 THEN 0
    ELSE 10 * int(SubSeq(s, 1, Len(s) - 1)) + s[Len(s)]

\* str.replace('-', '_') on the values of the 'level' leaf
ReplaceDash(s) ==
    CASE s = "level-1"   -> "level_1"
      [] s = "level-2"   -> "level_2"
      [] s = "level-1-2" -> "level_1_2"
      [] OTHER           -> s

\* dict_search('segment_routing.<block>[.<leaf>]', isis): the value, or None
\* (here: Empty for a missing dict, <<>> for a missing leaf).
dict_search_block(d, block) ==
    IF Has(d, "segment_routing") /\ Has(d["segment_routing"], block)
    THEN d["segment_routing"][block] ELSE Empty

bail_out(d) == d = Empty \/ Has(d, "deleted")

MandatoryWrongOrder(d) ==
    IF ~Has(d, "interface")
    THEN Raise("ConfigError", "Interface used for routing updates is mandatory!", <<>>, "interface")
    ELSE IF ~Has(d, "net")
    THEN Raise("ConfigError", "Network entity is mandatory!", <<>>, "net")
    ELSE IF ~Has(d, "domain")
    THEN Raise("ConfigError", "Routing domain name/tag must be set!", <<>>, "domain")
    ELSE NoExc

\* lines 77-85
check_mandatory(d) ==
    IF ~Has(d, "domain")
    THEN Raise("ConfigError", "Routing domain name/tag must be set!", <<>>, "domain")
    ELSE IF ~Has(d, "net")
    THEN Raise("ConfigError", "Network entity is mandatory!", <<>>, "net")
    ELSE IF ~Has(d, "interface")
    THEN Raise("ConfigError", "Interface used for routing updates is mandatory!", <<>>, "interface")
    ELSE NoExc

\* the interfaces of the dict in the order the loop of line 87 visits them
interface_list(d) == SelectSeq(InterfaceOrder, LAMBDA i : i \in d["interface"])

is_member(h, i, v) == h[i] # None /\ h[i] = v

\* lines 87-96: index of the first interface that is not bound to the VRF,
\* 0 when all are
first_non_member(d, h) ==
    LET l == interface_list(d)
        bad == {n \in 1..Len(l) : ~is_member(h, l[n], d["vrf"])}
    IN  IF bad = {} THEN 0 ELSE CHOOSE n \in bad : \A m \in bad : n <= m

check_vrf_membership(d, h) ==
    IF ~Has(d, "vrf") THEN Outcome(NoExc, 0)
    ELSE LET l == interface_list(d)
             n == first_non_member(d, h)
         IN  IF n = 0 THEN Outcome(NoExc, Len(l))
             ELSE Outcome(Raise("ConfigError", "Interface is not a member of VRF!",
                                <<l[n], d["vrf"]>>, "vrf"), n)

\* lines 98-101; isis['encryption'] raises KeyError when the key is missing
check_area_password(d) ==
    IF ~Has(d, "area_password") THEN NoExc
    ELSE IF ~Has(d, "encryption")
    THEN Raise("KeyError", "encryption", <<>>, "area_password")
    ELSE IF {"md5", "plaintext_password"} \subseteq d["encryption"]
    THEN Raise("ConfigError",
               "Can not use both md5 and plaintext-password for ISIS area-password!",
               <<>>, "area_password")
    ELSE NoExc

required_timers == <<"holddown", "init_delay", "long_delay", "short_delay", "time_to_learn">>

\* lines 103-113; the message lists the missing timers (in the iteration
\* order of a Python set, which the model leaves out)
check_spf_delay(d) ==
    IF ~Has(d, "spf_delay_ietf") THEN NoExc
    ELSE LET required == {required_timers[n] : n \in 1..Len(required_timers)}
             exist_timers == required \ (required \cap d["spf_delay_ietf"])
         IN  IF Cardinality(exist_timers) > 0
             THEN Raise("ConfigError", "All types of delay must be specified: ",
                        <<>>, "spf_delay_ietf")
             ELSE NoExc

\* lines 123-125 and 127-130: does this 'redistribute <afi> <proto>' entry
\* reach one of the two raise statements
redistribute_rejected(proc_level, proto_config) ==
    \/ ("level_1" \notin proto_config /\ "level_2" \notin proto_config)
    \/ \E redistr_level \in proto_config :
          proc_level # "" /\ proc_level # "level_1_2" /\ proc_level # redistr_level

\* lines 115-130. Both raise statements build their message from the name
\* 'process', which is bound neither in verify nor in the module: evaluating
\* the f-string raises NameError before ConfigError is constructed.
check_redistribute(d) ==
    IF ~Has(d, "redistribute") THEN NoExc
    ELSE LET proc_level == ReplaceDash(Get(d, "level", ""))
             redist == d["redistribute"]
         IN  IF ~Has(redist, "ipv4") THEN NoExc
             ELSE IF \E proto \in DOMAIN redist["ipv4"] :
                        redistribute_rejected(proc_level, redist["ipv4"][proto])
             THEN Raise("NameError", "name 'process' is not defined", <<>>, "redistribute")
             ELSE NoExc

SegmentRoutingLexical(d, block) ==
    LET b == dict_search_block(d, block)
        lo == Get(b, "low_label_value", <<>>)
        hi == Get(b, "high_label_value", <<>>)
    IN  IF b = Empty THEN NoExc
        ELSE IF (lo # <<>> /\ hi = <<>>) \/ (hi # <<>> /\ lo = <<>>)
        THEN Raise("ConfigError", "Segment routing block requires both low and high value!",
                   <<block>>, block)
        ELSE IF lo[1] > hi[1]
        THEN Raise("ConfigError", "Segment routing block low value must be lower than high value",
                   <<block>>, block)
        ELSE NoExc

\* lines 133-143 (global_block) and 145-155 (local_block). An empty block
\* dict is falsy and skips the rule; a block holds no other leaves than the
\* two label values, so one that is not empty holds at least one of them.
check_segment_routing(d, block) ==
    LET b == dict_search_block(d, block)
        lo == Get(b, "low_label_value", <<>>)
        hi == Get(b, "high_label_value", <<>>)
    IN  IF b = Empty THEN NoExc
        ELSE IF (lo # <<>> /\ hi = <<>>) \/ (hi # <<>> /\ lo = <<>>)
        THEN Raise("ConfigError", "Segment routing block requires both low and high value!",
                   <<block>>, block)
        ELSE IF int(lo) > int(hi)
        THEN Raise("ConfigError", "Segment routing block low value must be lower than high value",
                   <<block>>, block)
        ELSE NoExc

\* the rules of lines 98-155 in their order; the first that raises wins
later_rules(d) ==
    << check_area_password(d), check_spf_delay(d), check_redistribute(d),
       check_segment_routing(d, "global_block"),
       check_segment_routing(d, "local_block") >>

first_raise(rs) ==
    LET bad == {n \in 1..Len(rs) : rs[n] # NoExc}
    IN  IF bad = {} THEN NoExc
        ELSE rs[CHOOSE n \in bad : \A m \in bad : n <= m]

VerifyNoBailOut(d, h) ==
    IF check_mandatory(d) # NoExc THEN Outcome(check_mandatory(d), 0)
    ELSE LET m == check_vrf_membership(d, h)
         IN  IF m.exc # NoExc THEN m
             ELSE Outcome(first_raise(later_rules(d)), m.queries)

\* lines 72-157
verify_result(d, h) ==
    IF bail_out(d) THEN Outcome(NoExc, 0)
    ELSE IF check_mandatory(d) # NoExc THEN Outcome(check_mandatory(d), 0)
    ELSE LET m == check_vrf_membership(d, h)
         IN  IF m.exc # NoExc THEN m
             ELSE Outcome(first_raise(later_rules(d)), m.queries)

-----------------------------------------------------------------------------
(* The daemon configuration: a sequence of sections, each a header line     *)
(* (its words) and a body.  A pattern is a sequence of words in which       *)
(* NonSpace stands for the regular expression \S+ ; the patterns of apply   *)
(* are anchored at both ends (^...$).                                       *)

Sec(hdr, body) == [hdr |-> hdr, body |-> body]

NonSpace == "\\S+"

\* re.match of an anchored pattern against a header line
Matches(pattern, hdr) ==
    /\ Len(pattern) = Len(hdr)
    /\ \A n \in 1..Len(hdr) : pattern[n] = NonSpace \/ pattern[n] = hdr[n]

\* FRRConfig.modify_section(pattern, ''): every section the pattern addresses
\* is removed from the snapshot
modify_section(cfg, pattern) ==
    SelectSeq(cfg, LAMBDA s : ~Matches(pattern, s.hdr))

\* the anchor of line 185: (ip prefix-list .*|route-map .*|line vty)
is_anchor(hdr) ==
    \/ Len(hdr) >= 3 /\ hdr[1] = "ip" /\ hdr[2] = "prefix-list"
    \/ Len(hdr) >= 2 /\ hdr[1] = "route-map"
    \/ Len(hdr) >= 2 /\ hdr[1] = "line" /\ hdr[2] = "vty"

\* FRRConfig.add_before(anchor, text): text goes immediately before the first
\* section the anchor matches; without such a section nothing is inserted
add_before(cfg, text) ==
    LET at == {n \in 1..Len(cfg) : is_anchor(cfg[n].hdr)}
    IN  IF at = {} THEN cfg
        ELSE LET n == CHOOSE k \in at : \A m \in at : k <= m
             IN  SubSeq(cfg, 1, n - 1) \o text \o SubSeq(cfg, n, Len(cfg))

-----------------------------------------------------------------------------
(* get_config *)

Contexts == {None} \cup VrfNames

Absent == [exists |-> FALSE, tree |-> Empty]

Node(t) == [exists |-> TRUE, tree |-> t]

\* key_mangling=('-', '_') on the keys of the subtree
key_mangling(k) ==
    CASE k = "area-password"   -> "area_password"
      [] k = "spf-delay-ietf"  -> "spf_delay_ietf"
      [] k = "segment-routing" -> "segment_routing"
      [] OTHER                 -> k

\* conf.get_config_dict(base, key_mangling=('-', '_'), get_first_key=True):
\* the subtree with its keys normalised, {} when the subtree does not exist
get_config_dict(node) ==
    LET t == node.tree
    IN  [k \in {key_mangling(j) : j \in DOMAIN t} |->
            t[CHOOSE j \in DOMAIN t : key_mangling(j) = k]]

interfaces_of(node) == Get(node.tree, "interface", {})

\* node_changed(conf, base + ['interface']): the interface nodes of the last
\* commit that the current one no longer has
node_changed(before, now) == interfaces_of(before) \ interfaces_of(now)

GetConfigVrfAfterReturn(before, now, vrf) ==
    LET d0 == get_config_dict(now)
        removed == node_changed(before, now)
        d1 == IF removed # {} THEN ("interface_removed" :> removed) @@ d0 ELSE d0
    IN  IF ~now.exists THEN ("deleted" :> "") @@ d1
        ELSE IF vrf # None THEN ("vrf" :> vrf) @@ d1 ELSE d1

GetConfigNoRemoved(before, now, vrf) ==
    LET d0 == get_config_dict(now)
        d1 == IF vrf # None THEN ("vrf" :> vrf) @@ d0 ELSE d0
    IN  IF ~now.exists THEN ("deleted" :> "") @@ d1 ELSE d1

\* lines 35-70
get_config_result(before, now, vrf) ==
    LET d0 == get_config_dict(now)
        d1 == IF vrf # None THEN ("vrf" :> vrf) @@ d0 ELSE d0
        interfaces_removed == node_changed(before, now)
        d2 == IF interfaces_removed # {}
              THEN ("interface_removed" :> interfaces_removed) @@ d1 ELSE d1
    IN  IF ~now.exists THEN ("deleted" :> "") @@ d2 ELSE d2

-----------------------------------------------------------------------------
(* generate *)

\* ' vrf <name>' or nothing: the words that end a header of this instance
vrf_suffix(d) == IF Has(d, "vrf") THEN <<"vrf", d["vrf"]>> ELSE <<>>

\* render_to_string('frr/isis.frr.tmpl', isis): one 'interface' section per
\* interface of the dict, then the 'router isis <domain>' section
render_to_string(d) ==
    LET l == interface_list(d)
    IN  [n \in 1..Len(l) |-> Sec(<<"interface", l[n]>> \o vrf_suffix(d), d["domain"])]
        \o << Sec(<<"router", "isis", d["domain"]>> \o vrf_suffix(d), d["net"]) >>

\* lines 159-165
generate_result(d) ==
    IF bail_out(d) THEN ("new_frr_config" :> <<>>) @@ d
    ELSE ("new_frr_config" :> render_to_string(d)) @@ d

-----------------------------------------------------------------------------
(* apply *)

\* range(5) of line 191
Recommits == 5

\* the interfaces of lines 179-183
listed_interfaces(d) == Get(d, "interface", {}) \cup Get(d, "interface_removed", {})

RECURSIVE modify_sections(_, _)
modify_sections(cfg, patterns) ==
    IF patterns = {} THEN cfg
    ELSE LET p == CHOOSE q \in patterns : TRUE
         IN  modify_sections(modify_section(cfg, p), patterns \ {p})

\* line 178: ^router isis \S+{vrf}$
router_pattern(d) == <<"router", "isis", NonSpace>> \o vrf_suffix(d)

\* line 183: ^interface {interface}{vrf}$ for the interfaces of both keys
interface_patterns(d) ==
    {<<"interface", i>> \o vrf_suffix(d) : i \in listed_interfaces(d)}

RemoveOwnedKeepRouter(cfg, d) == modify_sections(cfg, interface_patterns(d))

\* lines 178-183
remove_owned(cfg, d) ==
    modify_sections(modify_section(cfg, router_pattern(d)), interface_patterns(d))

\* lines 174-185: the snapshot apply commits, from the one it loaded
modified(cfg, d) == add_before(remove_owned(cfg, d), d["new_frr_config"])

CommitsWantedAlwaysOne(d) == 1

\* lines 186-192: the commit of line 186, and the loop when the text is blank
commits_wanted(d) == IF d["new_frr_config"] = <<>> THEN 1 + Recommits ELSE 1

-----------------------------------------------------------------------------
(* The handler process and the commit framework around it *)

NoStatus == -1

Hosts == [Interfaces -> {None} \cup VrfNames]

Vty == Sec(<<"line", "vty">>, "")

RouteMap == Sec(<<"route-map", "RM", "permit", "10">>, "")

PrefixList == Sec(<<"ip", "prefix-list", "PL", "seq", "5", "permit", "any">>, "")

Log == Sec(<<"log", "syslog">>, "")

\* daemon configurations the first commit may find: with and without
\* sections of earlier IS-IS instances, always ending in 'line vty'
InitDaemons ==
    { <<Log, Vty>>,
      <<Log, RouteMap, Vty>>,
      <<Log, Sec(<<"interface", "eth1">>, "B"), Sec(<<"router", "isis", "B">>, "old"),
        Sec(<<"interface", "eth1", "vrf", "red">>, "A"),
        Sec(<<"router", "isis", "A", "vrf", "red">>, "old"), PrefixList, Vty>>,
      <<Sec(<<"router", "isis", "A">>, "old"), Log, RouteMap,
        Sec(<<"router", "isis", "A">>, "old"), Vty>> }

NonEmptyInterfaceSets == (SUBSET Interfaces) \ {{}}

ValidTrees ==
    {("domain" :> t) @@ ("net" :> n) @@ ("interface" :> s) :
        t \in Tags, n \in Nets, s \in NonEmptyInterfaceSets}

OneTree == ("domain" :> "A") @@ ("net" :> "49.0001.0000.0000.0001.00")
           @@ ("interface" :> {"eth0"})

\* subtrees a session may propose besides the valid ones: an empty node,
\* missing mandatory leaves, and leaves that the later rules look at
OtherTrees ==
    { Empty,
      ("net" :> "49.0001.0000.0000.0001.00") @@ ("interface" :> {"eth0"}),
      ("domain" :> "A") @@ ("net" :> "49.0001.0000.0000.0001.00"),
      ("spf-delay-ietf" :> {"holddown"}) @@ OneTree,
      ("spf-delay-ietf" :> {required_timers[n] : n \in 1..Len(required_timers)}) @@ OneTree,
      ("redistribute" :> ("ipv4" :> ("bgp" :> {}))) @@ OneTree,
      ("area-password" :> "secret") @@ OneTree }

Nodes == {Absent} \cup {Node(t) : t \in ValidTrees \cup OtherTrees}

Init ==
    /\ pc = "idle"
    /\ argv_vrf = None
    /\ running = [c \in Contexts |-> Absent]
    /\ proposed = Absent
    /\ host \in Hosts
    /\ isis = Empty
    /\ exc = NoExc
    /\ printed = NoExc
    /\ status = NoStatus
    /\ daemon \in InitDaemons
    /\ frr_cfg = <<>>
    /\ loads = 0
    /\ commits = 0
    /\ queries = 0
    /\ ran = <<>>

\* The commit framework runs the handler of a routing context whose subtree
\* the session changed; argv[1] names the VRF, if any.
invoke ==
    /\ pc = "idle"
    /\ \E c \in Contexts, now \in Nodes :
          /\ now # running[c]
          /\ argv_vrf' = c
          /\ proposed' = now
    /\ pc' = "get_config"
    /\ UNCHANGED <<running, host, isis, exc, printed, status, daemon, frr_cfg,
                   loads, commits, queries, ran>>

\* line 198
get_config ==
    /\ pc = "get_config"
    /\ isis' = get_config_result(running[argv_vrf], proposed, argv_vrf)
    /\ ran' = Append(ran, "get_config")
    /\ pc' = "verify"
    /\ UNCHANGED <<argv_vrf, running, proposed, host, exc, printed, status,
                   daemon, frr_cfg, loads, commits, queries>>

\* line 199
verify ==
    /\ pc = "verify"
    /\ LET r == verify_result(isis, host)
       IN  /\ exc' = r.exc
           /\ queries' = queries + r.queries
           /\ pc' = IF r.exc = NoExc THEN "generate" ELSE "raised"
    /\ ran' = Append(ran, "verify")
    /\ UNCHANGED <<argv_vrf, running, proposed, host, isis, printed, status,
                   daemon, frr_cfg, loads, commits>>

\* line 200
generate ==
    /\ pc = "generate"
    /\ isis' = generate_result(isis)
    /\ ran' = Append(ran, "generate")
    /\ pc' = "apply"
    /\ UNCHANGED <<argv_vrf, running, proposed, host, exc, printed, status,
                   daemon, frr_cfg, loads, commits, queries>>

\* lines 169-170: the snapshot is the daemon's configuration
apply_load ==
    /\ pc = "apply"
    /\ frr_cfg' = daemon
    /\ loads' = loads + 1
    /\ ran' = Append(ran, "apply")
    /\ pc' = "apply_modify"
    /\ UNCHANGED <<argv_vrf, running, proposed, host, isis, exc, printed,
                   status, daemon, commits, queries>>

\* lines 169-170 when the daemon collaborator fails: nothing in apply
\* catches the exception
load_fails ==
    /\ pc = "apply"
    /\ exc' = Raise("CommitError", "load_configuration failed", <<frr_daemon>>, "load")
    /\ ran' = Append(ran, "apply")
    /\ pc' = "raised"
    /\ UNCHANGED <<argv_vrf, running, proposed, host, isis, printed, status,
                   daemon, frr_cfg, loads, commits, queries>>

\* lines 174-185
apply_modify ==
    /\ pc = "apply_modify"
    /\ frr_cfg' = modified(frr_cfg, isis)
    /\ pc' = "apply_commit"
    /\ UNCHANGED <<argv_vrf, running, proposed, host, isis, exc, printed,
                   status, daemon, loads, commits, queries, ran>>

\* line 186, and line 192 in the loop of lines 190-191: the daemon takes
\* over the snapshot
apply_commit ==
    /\ pc = "apply_commit"
    /\ commits < commits_wanted(isis)
    /\ daemon' = frr_cfg
    /\ commits' = commits + 1
    /\ UNCHANGED <<pc, argv_vrf, running, proposed, host, isis, exc, printed,
                   status, frr_cfg, loads, queries, ran>>

\* lines 186 and 192 when the daemon collaborator fails
commit_fails ==
    /\ pc = "apply_commit"
    /\ commits < commits_wanted(isis)
    /\ exc' = Raise("CommitError", "commit_configuration failed", <<frr_daemon>>, "commit")
    /\ pc' = "raised"
    /\ UNCHANGED <<argv_vrf, running, proposed, host, isis, printed, status,
                   daemon, frr_cfg, loads, commits, queries, ran>>

\* line 194 and the end of the try block: the process ends with status 0
apply_return ==
    /\ pc = "apply_commit"
    /\ commits = commits_wanted(isis)
    /\ status' = 0
    /\ pc' = "exited"
    /\ UNCHANGED <<argv_vrf, running, proposed, host, isis, exc, printed,
                   daemon, frr_cfg, loads, commits, queries, ran>>

MainExceptNoExit ==
    /\ pc = "raised"
    /\ exc.kind = "ConfigError"
    /\ printed' = exc
    /\ status' = 0
    /\ pc' = "exited"
    /\ UNCHANGED <<argv_vrf, running, proposed, host, isis, exc, daemon,
                   frr_cfg, loads, commits, queries, ran>>

\* lines 202-204
main_except ==
    /\ pc = "raised"
    /\ exc.kind = "ConfigError"
    /\ printed' = exc
    /\ status' = 1
    /\ pc' = "exited"
    /\ UNCHANGED <<argv_vrf, running, proposed, host, isis, exc, daemon,
                   frr_cfg, loads, commits, queries, ran>>

\* An exception line 202 does not catch leaves the try block: the
\* interpreter reports it (through the hook airbag installed, line 31) and
\* the process ends with status 1.
uncaught ==
    /\ pc = "raised"
    /\ exc.kind # "ConfigError"
    /\ printed' = exc
    /\ status' = 1
    /\ pc' = "exited"
    /\ UNCHANGED <<argv_vrf, running, proposed, host, isis, exc, daemon,
                   frr_cfg, loads, commits, queries, ran>>

\* The commit framework keeps the proposed subtree when the handler ended
\* with status 0 and drops it otherwise; the process and its state are gone.
conclude ==
    /\ pc = "exited"
    /\ running' = IF status = 0 THEN [running EXCEPT ![argv_vrf] = proposed]
                  ELSE running
    /\ pc' = "idle"
    /\ argv_vrf' = None
    /\ proposed' = Absent
    /\ isis' = Empty
    /\ exc' = NoExc
    /\ printed' = NoExc
    /\ status' = NoStatus
    /\ frr_cfg' = <<>>
    /\ loads' = 0
    /\ commits' = 0
    /\ queries' = 0
    /\ ran' = <<>>
    /\ UNCHANGED <<host, daemon>>

Next ==
    \/ invoke
    \/ get_config
    \/ verify
    \/ generate
    \/ apply_load
    \/ load_fails
    \/ apply_modify
    \/ apply_commit
    \/ commit_fails
    \/ apply_return
    \/ main_except
    \/ uncaught
    \/ conclude

Spec == Init /\ [][Next]_vars

-----------------------------------------------------------------------------
(* verify on its own: the ConfigDicts it is handed are enumerated *)

Digits == {1, 9}

\* the label values: strings of 1 to MaxLabelDigits digits
Labels == UNION {[1..n -> Digits] : n \in 1..MaxLabelDigits}

\* a segment-routing block: any of its two leaves, or none (an empty node)
Blocks ==
    {lo @@ hi : lo \in Opt("low_label_value", Labels),
                hi \in Opt("high_label_value", Labels)}

\* some blocks: empty, one leaf, low <= high, low > high
SomeBlocks ==
    { Empty,
      "low_label_value" :> <<9>>,
      ("low_label_value" :> <<9>>) @@ ("high_label_value" :> <<1, 1>>),
      ("low_label_value" :> <<1, 1>>) @@ ("high_label_value" :> <<9>>) }

\* every block beside some other block, in both positions
SegmentRoutings ==
    Opt("segment_routing",
        {g @@ l : g \in Opt("global_block", Blocks), l \in Opt("local_block", SomeBlocks)}
        \cup
        {g @@ l : g \in Opt("global_block", SomeBlocks), l \in Opt("local_block", Blocks)})

Cores ==
    {a @@ b @@ c @@ v @@ x :
        a \in Opt("domain", {"A"}), b \in Opt("net", Nets),
        c \in Opt("interface", NonEmptyInterfaceSets),
        v \in Opt("vrf", VrfNames), x \in Opt("deleted", {""})}

Areas ==
    {a @@ e : a \in Opt("area_password", {"secret"}),
              e \in Opt("encryption", SUBSET {"md5", "plaintext_password"})}

Timers == {required_timers[n] : n \in 1..Len(required_timers)}

Spfs == Opt("spf_delay_ietf", SUBSET Timers)

Levels == Opt("level", {"level-1", "level-2", "level-1-2"})

Protocols == {"bgp", "ospf"}

Redistributes ==
    Opt("redistribute",
        {Empty} \cup
        {"ipv4" :> f : f \in UNION {[P -> SUBSET {"level_1", "level_2"}] :
                                       P \in (SUBSET Protocols) \ {{}}}})

\* dicts that an earlier rule rejects, or that it lets pass
EarlierCases ==
    { OneTree,
      ("vrf" :> "red") @@ OneTree,
      ("deleted" :> "") @@ ("vrf" :> "red") @@ ("interface" :> {"eth0"}),
      ("area_password" :> "secret") @@ ("encryption" :> {"md5", "plaintext_password"})
          @@ OneTree,
      ("area_password" :> "secret") @@ ("encryption" :> {"md5"}) @@ OneTree,
      ("spf_delay_ietf" :> {"holddown"}) @@ OneTree,
      ("redistribute" :> ("ipv4" :> ("bgp" :> {}))) @@ OneTree }

ConfigDicts ==
    {c @@ a : c \in Cores, a \in Areas}
    \cup {a @@ s @@ OneTree : a \in Areas, s \in Spfs}
    \cup {l @@ r @@ a @@ OneTree : l \in Levels, r \in Redistributes, a \in Areas}
    \cup {sr @@ e : sr \in SegmentRoutings, e \in EarlierCases}

InitVerify ==
    /\ pc = "verify"
    /\ isis \in ConfigDicts
    /\ argv_vrf = Get(isis, "vrf", None)
    /\ running = [c \in Contexts |-> Absent]
    /\ proposed = Absent
    /\ host \in IF Has(isis, "vrf") THEN Hosts ELSE {[i \in Interfaces |-> None]}
    /\ exc = NoExc
    /\ printed = NoExc
    /\ status = NoStatus
    /\ daemon = <<Vty>>
    /\ frr_cfg = <<>>
    /\ loads = 0
    /\ commits = 0
    /\ queries = 0
    /\ ran = <<"get_config">>

\* the dicts of the redistribute rule: every 'level' beside every
\* 'redistribute' node, on every combination of the mandatory leaves
RedistributeDicts == {l @@ r @@ c : l \in Levels, r \in Redistributes, c \in Cores}

InitRedistribute ==
    /\ pc = "verify"
    /\ isis \in RedistributeDicts
    /\ argv_vrf = Get(isis, "vrf", None)
    /\ running = [c \in Contexts |-> Absent]
    /\ proposed = Absent
    /\ host \in IF Has(isis, "vrf") THEN Hosts ELSE {[i \in Interfaces |-> None]}
    /\ exc = NoExc
    /\ printed = NoExc
    /\ status = NoStatus
    /\ daemon = <<Vty>>
    /\ frr_cfg = <<>>
    /\ loads = 0
    /\ commits = 0
    /\ queries = 0
    /\ ran = <<"get_config">>

NextVerify ==
    \/ verify
    \/ main_except
    \/ uncaught

SpecVerify == InitVerify /\ [][NextVerify]_vars

SpecRedistribute == InitRedistribute /\ [][NextVerify]_vars

-----------------------------------------------------------------------------
(* Properties of verify, checked under SpecVerify *)

after_verify == Len(ran) >= 2 /\ ran[2] = "verify"

AllNone == [i \in Interfaces |-> None]

\* C1: for every ConfigDict that is empty or holds the key 'deleted', verify
\* returns without raising, whatever else is missing or inconsistent, and
\* without a single query of the host interface state.
C1_DeletedOrEmptyIsValid ==
    (after_verify /\ (isis = Empty \/ Has(isis, "deleted")))
        => /\ exc = NoExc
           /\ queries = 0
           /\ pc = "generate"

\* a deleted VRF dict without domain and net, whose interface is not a member
\* of the VRF and whose global block has low > high, passed verify
C1_Witness ==
    /\ after_verify
    /\ Has(isis, "deleted") /\ Has(isis, "vrf")
    /\ ~Has(isis, "domain") /\ Has(isis, "interface")
    /\ host = AllNone
    /\ dict_search_block(isis, "global_block")
         = ("low_label_value" :> <<1, 1>>) @@ ("high_label_value" :> <<9>>)
    /\ exc = NoExc

FirstMissing(d) ==
    IF ~Has(d, "domain") THEN "domain"
    ELSE IF ~Has(d, "net") THEN "net"
    ELSE IF ~Has(d, "interface") THEN "interface"
    ELSE "none"

MissingText(field) ==
    CASE field = "domain"    -> "Routing domain name/tag must be set!"
      [] field = "net"       -> "Network entity is mandatory!"
      [] field = "interface" -> "Interface used for routing updates is mandatory!"
      [] OTHER               -> ""

\* C2: for every ConfigDict that is neither empty nor deleted and lacks
\* domain, net or interface, verify raises a ConfigError whose message is
\* the one of the first missing field in the order domain, net, interface,
\* and it does so before any host interface query and before any later rule.
C2_MissingMandatoryField ==
    (after_verify /\ isis # Empty /\ ~Has(isis, "deleted")
       /\ FirstMissing(isis) # "none")
        => /\ exc.kind = "ConfigError"
           /\ exc.rule = FirstMissing(isis)
           /\ exc.text = MissingText(FirstMissing(isis))
           /\ queries = 0
           /\ pc \in {"raised", "exited"}

\* a VRF dict without net and without interface, with an area password that
\* a later rule would reject, was rejected for its net
C2_Witness ==
    /\ after_verify
    /\ DOMAIN isis = {"domain", "vrf", "area_password", "encryption"}
    /\ isis["encryption"] = {"md5", "plaintext_password"}
    /\ exc.rule = "net"
    /\ pc = "exited"

EarlierThanSegmentRouting ==
    {"domain", "net", "interface", "vrf", "area_password", "spf_delay_ietf",
     "redistribute"}

ExactlyOneLabel(b) == Has(b, "low_label_value") # Has(b, "high_label_value")

BothLabels(b) == Has(b, "low_label_value") /\ Has(b, "high_label_value")

Inverted(b) == BothLabels(b) /\ int(b["low_label_value"]) > int(b["high_label_value"])

Ordered(b) == BothLabels(b) /\ int(b["low_label_value"]) <= int(b["high_label_value"])

\* what verify does with one block once every earlier rule has passed
BlockRule(block, earlier) ==
    LET b == dict_search_block(isis, block)
    IN  (after_verify /\ isis # Empty /\ ~Has(isis, "deleted")
           /\ exc.rule \notin earlier)
          => /\ ExactlyOneLabel(b) => (exc.kind = "ConfigError" /\ exc.rule = block)
             /\ Inverted(b) => (exc.kind = "ConfigError" /\ exc.rule = block)
             /\ Ordered(b) => exc.rule # block

\* C3: in a ConfigDict whose rules are evaluated and that passes all earlier
\* rules, each segment-routing block (global_block, then local_block) makes
\* verify raise a ConfigError if exactly one of low_label_value and
\* high_label_value is present or if both are and low > high, and is
\* accepted if both are present and low <= high; with every block accepted
\* verify returns without an exception.
C3_SegmentRoutingBlocks ==
    /\ BlockRule("global_block", EarlierThanSegmentRouting)
    /\ BlockRule("local_block", EarlierThanSegmentRouting \cup {"global_block"})
    /\ (after_verify /\ isis # Empty /\ ~Has(isis, "deleted")
          /\ exc.rule \notin EarlierThanSegmentRouting
          /\ Ordered(dict_search_block(isis, "global_block"))
          /\ Ordered(dict_search_block(isis, "local_block")))
         => (exc = NoExc /\ pc = "generate")

\* a dict with global low = high and a local block 9..11 passed verify
C3_Witness ==
    /\ after_verify
    /\ ~Has(isis, "deleted")
    /\ dict_search_block(isis, "global_block")
         = ("low_label_value" :> <<1, 9>>) @@ ("high_label_value" :> <<1, 9>>)
    /\ dict_search_block(isis, "local_block")
         = ("low_label_value" :> <<9>>) @@ ("high_label_value" :> <<1, 1>>)
    /\ exc = NoExc
    /\ pc = "generate"

EncryptionFlags(d) == Get(d, "encryption", {}) \cap {"md5", "plaintext_password"}

\* C4: for every ConfigDict that is not deleted, has domain, net and
\* interface and has an area password, verify raises a ConfigError when both
\* encryption flags md5 and plaintext_password are set, and the area
\* password rule does not reject it when at most one of them is.
C4_AreaPasswordExclusive ==
    (after_verify /\ ~Has(isis, "deleted") /\ FirstMissing(isis) = "none"
       /\ Has(isis, "area_password"))
        => /\ EncryptionFlags(isis) = {"md5", "plaintext_password"}
                => exc.kind = "ConfigError"
           /\ Cardinality(EncryptionFlags(isis)) <= 1
                => exc.rule # "area_password"

BadRedistribute(d) ==
    /\ Has(d, "redistribute") /\ Has(d["redistribute"], "ipv4")
    /\ \E proto \in DOMAIN d["redistribute"]["ipv4"] :
          LET levels == d["redistribute"]["ipv4"][proto]
              level == Get(d, "level", "level-1-2")
          IN  \/ levels = {}
              \/ level = "level-1" /\ "level_2" \in levels
              \/ level = "level-2" /\ "level_1" \in levels

\* C9: every rejection by verify is a ConfigError; in particular, for a
\* ConfigDict passing the earlier rules, a 'redistribute ipv4 <proto>' entry
\* with neither level, or with a level other than the process level (unless
\* that is level-1-2), makes verify raise a ConfigError about that
\* redistribute path, which the main block prints before it exits with 1.
C9_RejectionIsConfigError ==
    after_verify =>
        /\ exc.kind \in {"none", "ConfigError"}
        /\ (isis # Empty /\ ~Has(isis, "deleted") /\ BadRedistribute(isis)
              /\ exc.rule \notin {"domain", "net", "interface", "vrf",
                                  "area_password", "spf_delay_ietf"})
             => /\ exc.kind = "ConfigError"
                /\ exc.rule = "redistribute"
                /\ pc = "exited" => (printed = exc /\ status = 1)

-----------------------------------------------------------------------------
(* Properties of the whole handler, checked under Spec *)

\* the words that end a header of the invoked instance
instance_suffix == IF argv_vrf = None THEN <<>> ELSE <<"vrf", argv_vrf>>

is_router_of_instance(hdr) ==
    /\ Len(hdr) = 3 + Len(instance_suffix)
    /\ hdr[1] = "router" /\ hdr[2] = "isis"
    /\ SubSeq(hdr, 4, Len(hdr)) = instance_suffix

is_interface_of_instance(hdr, names) ==
    \E i \in names : hdr = <<"interface", i>> \o instance_suffix

\* the sections the invoked instance owns
owned(hdr) ==
    \/ is_router_of_instance(hdr)
    \/ is_interface_of_instance(hdr, listed_interfaces(isis))

count(cfg, P(_)) == Cardinality({n \in 1..Len(cfg) : P(cfg[n].hdr)})

\* the first commit of apply has returned
committed == pc = "apply_commit" /\ commits >= 1

\* C5: apply is idempotent: once apply has committed, applying the same
\* ConfigDict to the daemon configuration it produced yields the same text,
\* and no owned 'router isis' or 'interface' section occurs more than once.
C5_ApplyIdempotent ==
    committed =>
        /\ modified(daemon, isis) = daemon
        /\ count(daemon, is_router_of_instance) <= 1
        /\ \A i \in listed_interfaces(isis) :
              count(daemon, LAMBDA h : is_interface_of_instance(h, {i})) <= 1

\* apply committed a rendered interface and router section, put before the
\* route-map anchor of the daemon configuration
C5_Witness ==
    /\ committed
    /\ isis["new_frr_config"] # <<>>
    /\ running[argv_vrf] = Absent
    /\ Len(daemon) = 5
    /\ daemon[1] = Log /\ daemon[4] = RouteMap /\ daemon[5] = Vty
    /\ count(daemon, is_router_of_instance) = 1

\* the interfaces of the last commit that this commit no longer has
gone == interfaces_of(running[argv_vrf]) \ interfaces_of(proposed)

\* C6: removal completeness: an interface that the previous commit had under
\* the ISIS subtree and the current one lacks (deleted alone or with the
\* whole subtree) is in interface_removed of the ConfigDict get_config
\* returns, and once apply has completed the daemon configuration holds no
\* 'interface <name>' section of this routing context for it.
C6_RemovalComplete ==
    /\ pc \notin {"idle", "get_config"}
         => \A i \in gone : Has(isis, "interface_removed") /\ i \in isis["interface_removed"]
    /\ (pc = "exited" /\ status = 0)
         => \A i \in gone :
               count(daemon, LAMBDA h : is_interface_of_instance(h, {i})) = 0

\* the subtree of the VRF, which had two interfaces, was deleted and apply
\* has completed
C6_Witness ==
    /\ pc = "exited" /\ status = 0
    /\ argv_vrf = "red"
    /\ ~proposed.exists
    /\ gone = {"eth0", "eth1"}

foreign(cfg) == SelectSeq(cfg, LAMBDA s : ~owned(s.hdr))

\* C7: apply changes only the sections the invoked instance owns: its
\* 'router isis <tag>' section (with exactly its VRF suffix) and the
\* 'interface <name>' sections with that suffix for the names in interface
\* or interface_removed; all other sections are the same, in the same
\* order, before and after every commit, also when a VRF subtree is deleted.
C7_OnlyOwnedSectionsChange ==
    [][daemon' # daemon => foreign(daemon') = foreign(daemon)]_vars

\* the subtree of the VRF was deleted and its sections removed, beside the
\* sections of the default instance
C7_Witness ==
    /\ pc = "exited" /\ status = 0
    /\ argv_vrf = "red"
    /\ Has(isis, "deleted")
    /\ running["red"].exists
    /\ running[None].exists /\ running[None].tree # Empty
    /\ \E n \in 1..Len(daemon) : daemon[n].hdr = <<"router", "isis", "B">>
    /\ \E n \in 1..Len(daemon) : daemon[n].hdr = <<"interface", "eth1">>

Stages == <<"get_config", "verify", "generate", "apply">>

verify_failed == exc # NoExc /\ exc.rule \notin {"load", "commit"}

\* C8: an invocation runs get_config, verify, generate, apply in this order,
\* each at most once; when verify fails, generate and apply are not run,
\* the daemon configuration is neither loaded nor committed and stays as it
\* is, the error message is printed and the process exits with status 1;
\* status 0 is reached only after apply has completed.
C8_LinearControlFlow ==
    /\ [](/\ Len(ran) <= 4 /\ ran = SubSeq(Stages, 1, Len(ran))
          /\ verify_failed
               => /\ ran = <<"get_config", "verify">>
                  /\ loads = 0 /\ commits = 0 /\ frr_cfg = <<>>
                  /\ pc = "exited" => (status = 1 /\ printed = exc)
          /\ status = 0
               => /\ ran = Stages
                  /\ exc = NoExc
                  /\ loads = 1
                  /\ commits >= 1 /\ daemon = frr_cfg)
    /\ [][verify_failed => daemon' = daemon]_vars

\* verify rejected a subtree for its incomplete timers while the daemon
\* held sections of the instance, and the process has exited
C8_Witness ==
    /\ pc = "exited" /\ status = 1
    /\ exc.kind = "ConfigError" /\ exc.rule = "spf_delay_ietf"
    /\ printed = exc
    /\ running[argv_vrf].exists
    /\ count(daemon, is_router_of_instance) = 1

\* C10: apply loads the snapshot once; the removals and the insertion are
\* done before the first commit; with a non-empty new_frr_config the commit
\* is issued once, with an empty one it is issued 5 more times, the
\* snapshot being the same at each; a failing load or commit propagates and
\* no commit follows it.
C10_CommitCount ==
    /\ [](/\ loads <= 1
          /\ commits >= 1 => loads = 1
          /\ (pc = "apply_commit" /\ commits = 0) => frr_cfg = modified(daemon, isis)
          /\ (pc = "apply_commit" /\ commits >= 1) => daemon = frr_cfg
          /\ (pc = "apply_commit" /\ isis["new_frr_config"] # <<>>) => commits <= 1
          /\ commits <= 1 + 5
          /\ (status = 0 /\ isis["new_frr_config"] # <<>>) => commits = 1
          /\ (status = 0 /\ isis["new_frr_config"] = <<>>) => commits = 1 + 5)
    /\ [][/\ commits' > commits
             => (commits' = commits + 1 /\ frr_cfg' = frr_cfg /\ exc = NoExc
                 /\ loads = 1)
          /\ exc # NoExc => (commits' <= commits /\ loads' <= loads /\ daemon' = daemon)
         ]_vars

\* a full removal was committed six times and the process exited with 0
C10_Witness ==
    /\ pc = "exited" /\ status = 0
    /\ Has(isis, "deleted")
    /\ commits = 6
    /\ running[argv_vrf].exists

====
